---------------------------- MODULE Spec2Model ----------------------------
(***************************************************************************)
(* Rebalancing engine of the long/short momentum strategies.               *)
(*                                                                         *)
(* The module models the strategy classes of the repository                *)
(*   "okx"         OKXMomentumStrategy        (okx_momentum_strategy.py)   *)
(*   "okx_weekend" OKXWeekendReverseStrategy  (okx_weekend_reverse_...py)  *)
(*   "weekend"     WeekendReverseStrategy     (weekend_reverse_strategy.py)*)
(*   "basic"       MomentumStrategy           (momentum_strategy.py)       *)
(* as one state machine: the fields of the strategy object, the exchange   *)
(* account it trades on, and the position of run_strategy in its loop.     *)
(*                                                                         *)
(* Units.  Contract quantities are integers counting 0.0001 contract.      *)
(* Prices and notionals are whole USD.  Time counts loop ticks (one        *)
(* asyncio.sleep(60) each).  A score is an integer counting 0.01 (the      *)
(* ranking only compares scores).                                          *)
(***************************************************************************)
EXTENDS Integers, Sequences, FiniteSets, TLC

-----------------------------------------------------------------------------
(* Bounds of the model *)

\* Largest number of failing or anomalous exchange answers in one run
MaxFaults == 1
\* Number of ticks the clock runs after the first one
MaxTicks == 1
\* Largest LONG_TOP_N / SHORT_BOTTOM_N drawn by the selection specification
MaxN == 2
\* Largest number of instruments that hold a position when the engine starts
MaxLive == 2

-----------------------------------------------------------------------------
(* Program constants, scaled to the model's units *)

\* config.TARGET_VALUE, USD per leg
TARGET_VALUE == 200
\* config.BUY_INTERVAL (4 h) in ticks: scaled, only its order to the tick matters
BUY_INTERVAL == 4
\* candle cache lifetime (3600 s) in ticks: scaled, shorter than BUY_INTERVAL
CANDLE_TTL == 1

\* The instruments of the exchange
Instruments == {"BTC", "ETH", "SOL", "ADA", "XRP"}

\* Score values a candle series can yield (0.01 units)
Scores == {-10, 2, 10}
\* A candle series is held as the one-element list of the score it yields;
\* the empty list is a fetch that returned nothing usable (None, or fewer bars
\* than the class requires), and the initial 'data': []
NoData == <<>>

\* python None, and a value that is not None
None == <<>>
Some(x) == <<x>>

Variants == {"okx", "okx_weekend", "weekend", "basic"}

-----------------------------------------------------------------------------
(* Python dictionaries and lists *)

Range(s) == {s[i] : i \in 1..Len(s)}

\* d.get(k, default)
Get(d, k, default) == IF k \in DOMAIN d THEN d[k] ELSE default

\* d[k] = v
Put(d, k, v) == [x \in (DOMAIN d) \cup {k} |-> IF x = k THEN v ELSE d[x]]

\* the empty dict {}
EmptyDict == [x \in {} |-> 0]

\* s[:n]
HeadSlice(s, n) == SubSeq(s, 1, IF n < Len(s) THEN n ELSE Len(s))

\* s[-n:]  (python: -0 is 0, so s[-0:] is the whole list)
TailSlice(s, n) ==
    IF n = 0 \/ n >= Len(s) THEN s ELSE SubSeq(s, Len(s) - n + 1, Len(s))

\* the subsequence of s whose elements satisfy membership in S, order kept
RECURSIVE Filter(_, _)
Filter(s, S) ==
    IF s = <<>> THEN <<>>
    ELSE IF Head(s) \in S THEN <<Head(s)>> \o Filter(Tail(s), S)
         ELSE Filter(Tail(s), S)

-----------------------------------------------------------------------------
VARIABLES
    variant,          \* which strategy class runs
    trading_pairs,    \* config.TRADING_PAIRS, in iteration order
    long_n,           \* config.LONG_TOP_N
    short_n,          \* config.SHORT_BOTTOM_N
    market_precision, \* self.market_precision
    now,              \* wall clock, in ticks
    current_time,     \* run_strategy's local current_time
    last_ordered_ts,  \* self.last_ordered_ts
    pc,               \* position of run_strategy in its loop
    is_weekend_mode,  \* self.is_weekend_mode
    candles,          \* self.candles: pair -> [data, last_update]
    rsi,              \* self.rsi / self.momentum: the score table
    rsi_order,        \* insertion order of the keys of the score table
    status,           \* self.status
    target_value,     \* self.target_value
    price,            \* self.price
    asset_value,      \* self.asset_value
    asset_amount,     \* self.asset_amount
    positions,        \* the exchange account: instrument -> [side, contracts]
    orders,           \* orders submitted to the exchange in the current cycle
    faults,           \* number of failing exchange answers so far
    signalled,        \* an exit signal arrived and its handler has not run yet
    fetch_log,        \* calls and sleeps of fetch_candles_with_retry in the last get_factor
    mode_log          \* the mode-switch messages get_factor has logged

vars == <<variant, trading_pairs, long_n, short_n, market_precision, now,
          current_time, last_ordered_ts, pc, is_weekend_mode, candles, rsi, rsi_order,
          status, target_value, price, asset_value, asset_amount, positions,
          orders, faults, signalled, fetch_log, mode_log>>

cfgVars == <<variant, trading_pairs, long_n, short_n, market_precision>>
selVars == <<candles, rsi, rsi_order, status, target_value, is_weekend_mode, mode_log>>
snapVars == <<price, asset_value, asset_amount>>

Pairs == Range(trading_pairs)

FetchResults == {<<s>> : s \in Scores} \cup {NoData}

-----------------------------------------------------------------------------
(* Selector: ranking and selection at the end of get_factor *)

\* sorted() is stable: a key goes behind every key whose score is not larger
RECURSIVE InsertKey(_, _, _)
InsertKey(s, k, sc) ==
    IF s = <<>> THEN <<k>>
    ELSE IF sc[Head(s)] <= sc[k] THEN <<Head(s)>> \o InsertKey(Tail(s), k, sc)
    ELSE <<k>> \o s

\* sorted(self.rsi.keys(), key=lambda k: self.rsi[k]); keys in dict order
RECURSIVE SortedKeys(_, _)
SortedKeys(keys, sc) ==
    IF keys = <<>> THEN <<>>
    ELSE InsertKey(SortedKeys(SubSeq(keys, 1, Len(keys) - 1), sc),
                   keys[Len(keys)], sc)

\* long_keys of the selection: the top long_n; in weekend mode the bottom short_n
LongKeys(sorted_keys, ln, sn, weekend) ==
    IF weekend THEN HeadSlice(sorted_keys, sn) ELSE TailSlice(sorted_keys, ln)

\* short_keys of the selection: the bottom short_n; in weekend mode the top long_n
ShortKeys(sorted_keys, ln, sn, weekend) ==
    IF weekend THEN TailSlice(sorted_keys, ln) ELSE HeadSlice(sorted_keys, sn)

\* the three loops "reset all, set long, set short" applied to a dict d:
\* a later loop overwrites an earlier one
Assign3(d, sorted_keys, long_keys, short_keys, vlong, vshort) ==
    [k \in (DOMAIN d) \cup Range(sorted_keys) |->
        IF k \in Range(short_keys) THEN vshort
        ELSE IF k \in Range(long_keys) THEN vlong
        ELSE IF k \in Range(sorted_keys) THEN 0
        ELSE d[k]]

\* a selection that ranks whatever is scored, however few
SelectOKXUnguarded(keys, sc, ln, sn, weekend, st, tv) ==
    LET sorted_keys == SortedKeys(keys, sc)
        long_keys == LongKeys(sorted_keys, ln, sn, weekend)
        short_keys == ShortKeys(sorted_keys, ln, sn, weekend)
    IN  IF keys # <<>>
        THEN <<Assign3(st, sorted_keys, long_keys, short_keys, 1, -1),
               Assign3(tv, sorted_keys, long_keys, short_keys,
                       TARGET_VALUE, -TARGET_VALUE)>>
        ELSE <<st, tv>>

\* Selection of OKXMomentumStrategy, OKXWeekendReverseStrategy and
\* WeekendReverseStrategy on score table sc with key order keys:
\* the pair <<status, target_value>> it leaves
SelectOKX(keys, sc, ln, sn, weekend, st, tv) ==
    LET sorted_keys == SortedKeys(keys, sc)
        long_keys == LongKeys(sorted_keys, ln, sn, weekend)
        short_keys == ShortKeys(sorted_keys, ln, sn, weekend)
    IN  IF keys # <<>> /\ Len(sorted_keys) >= ln + sn
        THEN <<Assign3(st, sorted_keys, long_keys, short_keys, 1, -1),
               Assign3(tv, sorted_keys, long_keys, short_keys,
                       TARGET_VALUE, -TARGET_VALUE)>>
        ELSE <<st, tv>>

\* Selection of MomentumStrategy: the two best and the two worst, written
\* one key after the other, nothing reset
SelectBasic(keys, sc, st, tv) ==
    LET sorted_keys == SortedKeys(keys, sc)
        n == Len(sorted_keys)
        min_key1 == sorted_keys[1]
        min_key2 == sorted_keys[2]
        max_key2 == sorted_keys[n - 1]
        max_key1 == sorted_keys[n]
        W(d, vlong, vshort) ==
            Put(Put(Put(Put(d, max_key1, vlong), max_key2, vlong),
                    min_key1, vshort), min_key2, vshort)
    IN  IF keys # <<>> /\ n >= 4
        THEN <<W(st, 1, -1), W(tv, TARGET_VALUE, -TARGET_VALUE)>>
        ELSE <<st, tv>>

\* whether the class keeps fetched candles in self.candles
HasCandleCache(v) == v # "weekend"

\* whether the class has the weekend switch
HasWeekendMode(v) == v \in {"okx_weekend", "weekend"}

\* the candle fetch of get_factor is due for pair p
RefreshDue(p) ==
    IF HasCandleCache(variant)
    THEN now - candles[p].last_update > CANDLE_TTL
    ELSE TRUE

\* datetime.now() as is_weekend_time reads it: weekday() counts from Monday = 0
Weekdays == 0..6
Hours == 0..23

\* is_weekend_time never in weekend mode
IsWeekendTimeNever(weekday, hour) == FALSE

\* is_weekend_time at local time (weekday, hour), with weekend_start_hour = 20
\* and weekend_end_hour = 8
IsWeekendTime(weekday, hour) ==
    IF weekday = 4 /\ hour >= 20 THEN TRUE
    ELSE IF weekday = 5 THEN TRUE
    ELSE IF weekday = 6 THEN TRUE
    ELSE IF weekday = 0 /\ hour < 8 THEN TRUE
    ELSE FALSE

\* the message get_factor logs when the mode switches to wk
ModeMessage(wk) == IF wk THEN "to_weekend_reverse" ELSE "to_weekday_momentum"

\* get_factor with fetch answers f (pair -> FetchResults) and is_weekend_time()
\* answering wk: the scoring loop, then the selection
GetFactorEffect(f, wk) ==
    LET data(p) == IF HasCandleCache(variant) THEN candles'[p].data ELSE f[p]
        scored == {p \in Pairs : data(p) # NoData}
    IN  /\ candles' = [p \in DOMAIN candles |->
                    IF HasCandleCache(variant) /\ p \in Pairs /\ RefreshDue(p)
                       /\ f[p] # NoData
                    THEN [data |-> f[p], last_update |-> now]
                    ELSE candles[p]]
        /\ rsi' = [p \in (DOMAIN rsi) \cup scored |->
                    IF p \in scored THEN data(p)[1] ELSE rsi[p]]
        /\ rsi_order' = rsi_order \o Filter(trading_pairs, scored \ DOMAIN rsi)
        /\ is_weekend_mode' = IF HasWeekendMode(variant) THEN wk ELSE is_weekend_mode
        /\ mode_log' = IF HasWeekendMode(variant) /\ wk # is_weekend_mode
                       THEN Append(mode_log, ModeMessage(wk))
                       ELSE mode_log
        /\ LET status1 == [p \in (DOMAIN status) \cup scored |->
                              IF p \in scored THEN 0 ELSE status[p]]
               sel == IF variant = "basic"
                      THEN SelectBasic(rsi_order', rsi', status1, target_value)
                      ELSE SelectOKX(rsi_order', rsi', long_n, short_n,
                                     is_weekend_mode', status1, target_value)
           IN  /\ status' = sel[1]
               /\ target_value' = sel[2]

\* fetch answers get_factor can meet: a pair that is not fetched has no answer
\* (NoData stands for it), each fetched pair without usable data is a fault
FetchAnswers ==
    {f \in [Pairs -> FetchResults] :
        /\ \A p \in Pairs : ~RefreshDue(p) => f[p] = NoData
        /\ faults + Cardinality({p \in Pairs : RefreshDue(p) /\ f[p] = NoData})
             <= MaxFaults}

FetchFaults(f) == Cardinality({p \in Pairs : RefreshDue(p) /\ f[p] = NoData})

WeekendAnswers ==
    IF HasWeekendMode(variant)
    THEN {IsWeekendTime(wd, h) : wd \in Weekdays, h \in Hours}
    ELSE {FALSE}

-----------------------------------------------------------------------------
(* OrderSizer: calculate_order_amount *)

\* 10^d
Pow10(d) == CASE d = 0 -> 1 [] d = 1 -> 10 [] d = 2 -> 100 [] d = 3 -> 1000
              [] d = 4 -> 10000

\* round(num / den) as python 3 rounds: to the nearest integer, a tie to the
\* even one (num >= 0, den > 0)
RoundHalfEven(num, den) ==
    LET q == num \div den
        r == num % den
    IN  IF 2 * r < den THEN q
        ELSE IF 2 * r > den THEN q + 1
        ELSE IF q % 2 = 0 THEN q ELSE q + 1

\* int(abs(math.log10(amount_precision))) for a float step, the step counted
\* in 0.0001 contract: 0.01 -> 2, 0.1 -> 1, 0.5 -> 0, 1.0 -> 0, 10.0 -> 1
Digits(step) ==
    CASE step = 100 -> 2 [] step = 1000 -> 1 [] step = 5000 -> 0
      [] step = 10000 -> 0 [] step = 100000 -> 1

\* market.get('contractSize', 1), counted in 0.0001 of the underlying
ContractSize(i) ==
    CASE i = "BTC" -> 100 [] i = "ETH" -> 1000 [] i = "SOL" -> 10000
      [] i = "ADA" -> 1000000 [] i = "XRP" -> 1000000

\* ticker['last'] of an instrument, USD
LastPrice(i) ==
    CASE i = "BTC" -> 40000 [] i = "ETH" -> 4000 [] i = "SOL" -> 100
      [] i = "ADA" -> 1 [] i = "XRP" -> 2

Abs(x) == IF x < 0 THEN -x ELSE x

\* the rows setup_market_precision can store for a pair:
\* a float step 0.01 with minimum 0.01; an integer step 1 with minimum 1;
\* the defaults 0 / 0 of a market that states no precision and no limits
PrecisionRows ==
    { [amount_precision |-> [isfloat |-> TRUE, step |-> 100], min_amount |-> 100],
      [amount_precision |-> [isfloat |-> FALSE, step |-> 10000], min_amount |-> 10000],
      [amount_precision |-> [isfloat |-> FALSE, step |-> 0], min_amount |-> 0] }

\* calculate_order_amount of OKXMomentumStrategy / OKXWeekendReverseStrategy:
\* None, or Some(quantity)
CalcOrderAmountOKX(trading_pair, tv, current_price) ==
    IF trading_pair \notin DOMAIN market_precision THEN None
    ELSE IF current_price = 0 THEN None   \* ZeroDivisionError, caught
    ELSE
      LET precision_data == market_precision[trading_pair]
          min_amount == precision_data.min_amount
          ap == precision_data.amount_precision
          d == IF ap.isfloat THEN Digits(ap.step) ELSE 0
          mag == RoundHalfEven(Abs(tv) * 10000 * Pow10(d),
                               ContractSize(trading_pair) * Abs(current_price))
                 * Pow10(4 - d)
          order_amount == IF current_price < 0 THEN -mag ELSE mag
      IN  IF order_amount < min_amount THEN None ELSE Some(order_amount)

\* calculate_order_amount of WeekendReverseStrategy: round(|value| / price, 4),
\* 0.0 when the division raises
CalcOrderAmountWeekend(trading_pair, tv, current_price) ==
    IF current_price = 0 THEN 0
    ELSE LET mag == RoundHalfEven(Abs(tv) * 10000, Abs(current_price))
         IN  IF current_price < 0 THEN -mag ELSE mag

\* the sizing step of create_order: None when the loop continues with the next
\* pair, Some(order_amount) when it goes on to the branches
SizingStep(trading_pair, tv, current_price) ==
    IF variant = "weekend"
    THEN LET a == CalcOrderAmountWeekend(trading_pair, tv, current_price)
         IN  IF a = 0 THEN None ELSE Some(a)
    ELSE CalcOrderAmountOKX(trading_pair, tv, current_price)

-----------------------------------------------------------------------------
(* The exchange account *)

InstrumentSeq == <<"BTC", "ETH", "SOL", "ADA", "XRP">>

NoPosition == [long |-> 0, short |-> 0]

\* contracts of the position an account in net mode holds for an instrument
NetOf(i) == IF "net" \in DOMAIN positions[i] THEN positions[i].net ELSE 0

\* the entries fetch_positions returns for one instrument
EntriesOf(i) ==
    (IF NetOf(i) > 0
     THEN <<[symbol |-> i, posSide |-> "net", pos |-> NetOf(i)]>>
     ELSE <<>>)
    \o
    (IF positions[i].long > 0
     THEN <<[symbol |-> i, posSide |-> "long", pos |-> positions[i].long]>>
     ELSE <<>>)
    \o
    (IF positions[i].short > 0
     THEN <<[symbol |-> i, posSide |-> "short", pos |-> positions[i].short]>>
     ELSE <<>>)

\* instruments with a live position
Live == {i \in Instruments : EntriesOf(i) # <<>>}

\* an order as place_order submits it
Order(symbol, side, pos_side, reduce_only, amount) ==
    [symbol |-> symbol, side |-> side, pos_side |-> pos_side,
     reduce_only |-> reduce_only, amount |-> amount]

\* the exchange takes the order: a positive size, and for a reduce-only order
\* a position on that side to reduce
Accepts(pos, o) ==
    /\ o.amount > 0
    /\ o.reduce_only => pos[o.symbol][o.pos_side] > 0

\* the account after order o filled in full
Fill(pos, o) ==
    LET held == pos[o.symbol][o.pos_side]
        left == IF o.reduce_only
                THEN (IF o.amount >= held THEN 0 ELSE held - o.amount)
                ELSE held + o.amount
    IN  [pos EXCEPT ![o.symbol][o.pos_side] = left]

\* a loop that a failed placement ends: the orders behind it are not submitted
RECURSIVE PlaceOrdersAbort(_, _, _, _)
PlaceOrdersAbort(pos, log, os, failing) ==
    IF os = <<>> THEN <<pos, log>>
    ELSE LET o == Head(os)
             placed == o.symbol \notin failing /\ Accepts(pos, o)
             rec == [symbol |-> o.symbol, side |-> o.side, pos_side |-> o.pos_side,
                     reduce_only |-> o.reduce_only, amount |-> o.amount,
                     placed |-> placed]
         IN  IF placed
             THEN PlaceOrdersAbort(Fill(pos, o), Append(log, rec), Tail(os), failing)
             ELSE <<pos, Append(log, rec)>>

\* place_order for each order of os, one after the other; failing is the set
\* of symbols whose call raises.  <<account, order log>>
RECURSIVE PlaceOrders(_, _, _, _)
PlaceOrders(pos, log, os, failing) ==
    IF os = <<>> THEN <<pos, log>>
    ELSE LET o == Head(os)
             placed == o.symbol \notin failing /\ Accepts(pos, o)
             rec == [symbol |-> o.symbol, side |-> o.side, pos_side |-> o.pos_side,
                     reduce_only |-> o.reduce_only, amount |-> o.amount,
                     placed |-> placed]
         IN  PlaceOrders(IF placed THEN Fill(pos, o) ELSE pos,
                         Append(log, rec), Tail(os), failing)

-----------------------------------------------------------------------------
(* PositionReconciler: get_balance, close_orphaned_positions, create_order *)

\* the signed quantity get_balance stores for a pair: the first entry of the
\* pair with contracts > 0 decides, positive for long and negative for short
SnapshotAmount(p) ==
    LET es == EntriesOf(p)
    IN  IF es = <<>> THEN 0
        ELSE IF es[1].posSide = "long" THEN es[1].pos ELSE -es[1].pos

\* get_balance stores a quantity for the pair: no entry with contracts > 0, or
\* the first such entry has posSide 'long' or 'short'
SnapshotWritten(p) ==
    LET es == EntriesOf(p)
    IN  es = <<>> \/ es[1].posSide \in {"long", "short"}

\* all_positions of get_all_positions: the symbols with contracts > 0 whose
\* ticker could be fetched (noticker: the symbols whose fetch_ticker raises)
AllPositions(noticker) == Filter(InstrumentSeq, Live \ noticker)

\* pos_info of a symbol in all_positions: the last entry of the symbol
PosInfo(symbol) ==
    LET es == EntriesOf(symbol)
        e == es[Len(es)]
    IN  [symbol |-> symbol, side |-> e.posSide, contracts |-> e.pos]

\* selected_positions: the pairs with status 1 or -1
SelectedPositions == {pair \in DOMAIN status : status[pair] = 1 \/ status[pair] = -1}

\* orphaned_positions: the symbols of all_positions outside selected_positions
OrphanedPositions(all_positions) ==
    Filter(all_positions, Range(all_positions) \ SelectedPositions)

\* the order close_orphaned_positions places for an orphaned position
OrphanCloseOrder(pos_info) ==
    IF pos_info.side = "long"
    THEN Order(pos_info.symbol, "sell", "long", TRUE, pos_info.contracts)
    ELSE Order(pos_info.symbol, "buy", "short", TRUE, pos_info.contracts)

\* an opening branch that does not look at the position value
OpenGuardAnyValue(current_status, current_value) ==
    current_status = 1 \/ current_status = -1

\* the branch of create_order that opens: status 1 or -1 and no position value
OpenGuard(current_status, current_value) ==
    (current_status = 1 \/ current_status = -1) /\ current_value = 0

\* the branch of create_order that closes: status 0 and a position value
CloseGuard(current_status, current_value) ==
    current_status = 0 /\ current_value # 0

\* the order create_order places for a pair once sizing gave order_amount
BranchOrder(trading_pair, order_amount) ==
    LET current_value == Get(asset_value, trading_pair, 0)
        current_status == Get(status, trading_pair, 0)
    IN  IF OpenGuard(current_status, current_value)
        THEN (IF current_status = 1
              THEN <<Order(trading_pair, "buy", "long", FALSE, order_amount)>>
              ELSE <<Order(trading_pair, "sell", "short", FALSE, order_amount)>>)
        ELSE IF CloseGuard(current_status, current_value)
        THEN (IF current_value > 0
              THEN <<Order(trading_pair, "sell", "long", TRUE,
                           Abs(asset_amount[trading_pair]))>>
              ELSE <<Order(trading_pair, "buy", "short", TRUE,
                           Abs(asset_amount[trading_pair]))>>)
        ELSE <<>>

\* one iteration of the loop of create_order: the orders it places (none or one)
CreateOrderFor(trading_pair) ==
    LET current_price == Get(price, trading_pair, 0)
        tv == Get(target_value, trading_pair, 0)
        sized == SizingStep(trading_pair, tv, current_price)
    IN  IF current_price = 0 THEN <<>>
        ELSE IF sized = None THEN <<>>
        ELSE BranchOrder(trading_pair, sized[1])

RECURSIVE CreateOrders(_)
CreateOrders(ps) ==
    IF ps = <<>> THEN <<>>
    ELSE CreateOrderFor(Head(ps)) \o CreateOrders(Tail(ps))

RECURSIVE OrphanOrders(_)
OrphanOrders(symbols) ==
    IF symbols = <<>> THEN <<>>
    ELSE (IF PosInfo(Head(symbols)).side \in {"long", "short"}
          THEN <<OrphanCloseOrder(PosInfo(Head(symbols)))>>
          ELSE <<>>)
         \o OrphanOrders(Tail(symbols))

Symbols(os) == {os[i].symbol : i \in 1..Len(os)}

-----------------------------------------------------------------------------
(* RebalanceScheduler: run_strategy and its steps *)

\* a gate that lets every tick through
IntervalIgnored(t) == TRUE

\* the gate of run_strategy, for the time t read at the top of the loop
IntervalElapsed(t) == t - last_ordered_ts >= BUY_INTERVAL

\* top of the loop with the interval elapsed: a cycle starts
TickRun ==
    /\ pc = "tick"
    /\ IntervalElapsed(now)
    /\ current_time' = now
    /\ orders' = <<>>
    /\ pc' = "get_factor"
    /\ UNCHANGED <<signalled, fetch_log, cfgVars, selVars, snapVars, now, last_ordered_ts, positions, faults>>

\* top of the loop before the interval elapsed: straight to the sleep
TickIdle ==
    /\ pc = "tick"
    /\ ~IntervalElapsed(now)
    /\ current_time' = now
    /\ pc' = "sleep"
    /\ UNCHANGED <<signalled, fetch_log, cfgVars, selVars, snapVars, now, last_ordered_ts, positions,
                   orders, faults>>

\* await asyncio.sleep(60)
Sleep ==
    /\ pc = "sleep"
    /\ now < BUY_INTERVAL + MaxTicks
    /\ now' = now + 1
    /\ pc' = "tick"
    /\ UNCHANGED <<signalled, fetch_log, cfgVars, selVars, snapVars, current_time, last_ordered_ts,
                   positions, orders, faults>>

\* a call of get_factor
GetFactorCall ==
    \E f \in FetchAnswers, wk \in WeekendAnswers :
        /\ GetFactorEffect(f, wk)
        /\ faults' = faults + FetchFaults(f)

\* the step that follows get_factor in run_strategy
AfterGetFactor ==
    IF variant = "okx_fixed" THEN "get_balance" ELSE "cancel_all_orders"

GetFactor ==
    /\ pc = "get_factor"
    /\ GetFactorCall
    /\ pc' = AfterGetFactor
    /\ UNCHANGED <<signalled, fetch_log, cfgVars, snapVars, now, current_time, last_ordered_ts,
                   positions, orders>>

\* cancel_all_orders: market orders leave nothing open, so nothing to cancel
CancelAllOrders ==
    /\ pc = "cancel_all_orders"
    /\ pc' = "get_balance"
    /\ UNCHANGED <<signalled, fetch_log, cfgVars, selVars, snapVars, now, current_time, last_ordered_ts,
                   positions, orders, faults>>

\* the step that follows get_balance in run_strategy
AfterGetBalance ==
    IF variant = "okx" THEN "print_positions_to_close" ELSE "create_order"

\* get_balance: the position fetch raises and nothing is written, or the loop
\* writes the first k pairs and the ticker fetch of the next one raises
GetBalance ==
    /\ pc = "get_balance"
    /\ \/ /\ faults < MaxFaults
          /\ faults' = faults + 1
          /\ UNCHANGED snapVars
       \/ \E k \in 0..Len(trading_pairs) :
            LET done == Range(HeadSlice(trading_pairs, k))
                nf == IF k < Len(trading_pairs) THEN 1 ELSE 0
                W(d, val(_)) == [p \in (DOMAIN d) \cup done |->
                                    IF p \in done THEN val(p) ELSE d[p]]
                stored == {p \in done : SnapshotWritten(p)}
                S(d, val(_)) == [p \in (DOMAIN d) \cup stored |->
                                    IF p \in stored THEN val(p) ELSE d[p]]
                pr(p) == LastPrice(p)
                am(p) == SnapshotAmount(p)
                va(p) == SnapshotAmount(p) * LastPrice(p)
            IN  /\ faults + nf <= MaxFaults
                /\ faults' = faults + nf
                /\ price' = W(price, pr)
                /\ asset_amount' = S(asset_amount, am)
                /\ asset_value' = S(asset_value, va)
    /\ pc' = AfterGetBalance
    /\ UNCHANGED <<signalled, fetch_log, cfgVars, selVars, now, current_time, last_ordered_ts,
                   positions, orders>>

\* print_positions_to_close: prints, changes nothing
PrintPositionsToClose ==
    /\ pc = "print_positions_to_close"
    /\ pc' = "close_orphaned_positions"
    /\ UNCHANGED <<signalled, fetch_log, cfgVars, selVars, snapVars, now, current_time, last_ordered_ts,
                   positions, orders, faults>>

\* close_orphaned_positions: get_all_positions answers {} when the position
\* fetch raises; otherwise every orphaned position gets its closing order
CloseOrphanedPositions ==
    /\ pc = "close_orphaned_positions"
    /\ \/ /\ faults < MaxFaults
          /\ faults' = faults + 1
          /\ UNCHANGED <<positions, orders>>
       \/ \E noticker \in SUBSET Live, failing \in SUBSET Live :
            LET orphaned_positions == OrphanedPositions(AllPositions(noticker))
                os == OrphanOrders(orphaned_positions)
                res == PlaceOrders(positions, orders, os, failing)
                nf == Cardinality(noticker) + Cardinality(failing)
            IN  /\ failing \subseteq Symbols(os)
                /\ faults + nf <= MaxFaults
                /\ faults' = faults + nf
                /\ positions' = res[1]
                /\ orders' = res[2]
    /\ pc' = "create_order"
    /\ UNCHANGED <<signalled, fetch_log, cfgVars, selVars, snapVars, now, current_time, last_ordered_ts>>

\* create_order, then last_ordered_ts = current_time
CreateOrder ==
    /\ pc = "create_order"
    /\ variant # "okx_fixed"
    /\ \E failing \in SUBSET Pairs :
         LET os == CreateOrders(trading_pairs)
             res == PlaceOrders(positions, orders, os, failing)
             nf == Cardinality(failing)
         IN  /\ failing \subseteq Symbols(os)
             /\ faults + nf <= MaxFaults
             /\ faults' = faults + nf
             /\ positions' = res[1]
             /\ orders' = res[2]
    /\ last_ordered_ts' = current_time
    /\ pc' = "sleep"
    /\ UNCHANGED <<signalled, fetch_log, cfgVars, selVars, snapVars, now, current_time>>

-----------------------------------------------------------------------------
(* Initial states *)

\* contracts of a position held before the engine starts (0.0001 contract)
Lot(i) ==
    CASE i = "BTC" -> 1000 [] i = "ETH" -> 10000 [] i = "SOL" -> 100000
      [] i = "ADA" -> 10000000 [] i = "XRP" -> 10000000

\* the accounts the engine can start on: XRP, which only the universe of
\* MomentumStrategy lists, is not held
InitialPositions ==
    {[i \in Instruments |->
        IF c[i] = "long" THEN [long |-> Lot(i), short |-> 0]
        ELSE IF c[i] = "short" THEN [long |-> 0, short |-> Lot(i)]
        ELSE NoPosition] :
      c \in {d \in [Instruments -> {"none", "long", "short"}] :
                /\ d["XRP"] = "none"
                /\ Cardinality({i \in Instruments : d[i] # "none"}) <= MaxLive}}

\* the fields __init__ sets, for a given universe
InitStrategy(pairs) ==
    /\ trading_pairs = pairs
    /\ now = BUY_INTERVAL
    /\ current_time = 0
    /\ last_ordered_ts = 0
    /\ is_weekend_mode = FALSE
    /\ mode_log = <<>>
    /\ candles = [p \in Range(pairs) |-> [data |-> NoData, last_update |-> 0]]
    /\ rsi = EmptyDict
    /\ rsi_order = <<>>
    /\ status = [p \in Range(pairs) |-> 0]
    /\ target_value = [p \in Range(pairs) |-> 0]
    /\ price = EmptyDict
    /\ asset_value = EmptyDict
    /\ asset_amount = EmptyDict
    /\ orders = <<>>
    /\ signalled = FALSE
    /\ fetch_log = <<>>

\* setup_market_precision: one row per pair, or nothing when load_markets raised
InitPrecision(pairs) ==
    \/ /\ \E row \in PrecisionRows : market_precision = [p \in Range(pairs) |-> row]
       /\ faults = 0
    \/ /\ market_precision = EmptyDict
       /\ faults = 1

\* OKXMomentumStrategy on three pairs, one instrument outside the universe
Init ==
    /\ variant = "okx"
    /\ long_n = 1
    /\ short_n = 1
    /\ InitStrategy(<<"BTC", "ETH", "SOL">>)
    /\ InitPrecision(<<"BTC", "ETH", "SOL">>)
    /\ positions \in InitialPositions
    /\ pc = "tick"

Next ==
    \/ TickRun
    \/ TickIdle
    \/ GetFactor
    \/ CancelAllOrders
    \/ GetBalance
    \/ PrintPositionsToClose
    \/ CloseOrphanedPositions
    \/ CreateOrder
    \/ Sleep

Spec == Init /\ [][Next]_vars

-----------------------------------------------------------------------------
(* The weekend classes: run_strategy without the orphan steps *)

InitW ==
    /\ variant \in {"okx_weekend", "weekend"}
    /\ long_n = 1
    /\ short_n = 1
    /\ InitStrategy(<<"BTC", "ETH", "SOL">>)
    /\ InitPrecision(<<"BTC", "ETH", "SOL">>)
    /\ positions \in InitialPositions
    /\ pc = "tick"

NextW ==
    \/ TickRun
    \/ TickIdle
    \/ GetFactor
    \/ CancelAllOrders
    \/ GetBalance
    \/ CreateOrder
    \/ Sleep

SpecW == InitW /\ [][NextW]_vars

-----------------------------------------------------------------------------
(* The selection alone: get_factor called cycle after cycle, for every class *)
(* and every LONG_TOP_N / SHORT_BOTTOM_N                                     *)

\* MomentumStrategy takes the top two and the bottom two of at least four
\* scored pairs, so its universe has a fifth pair that can be left out; the
\* other classes read LONG_TOP_N and SHORT_BOTTOM_N
\* the orders in which iterating the set Config.TRADING_PAIRS can give its
\* members: the order of a set of strings changes with the hash seed of the run
Orderings(S) ==
    {f \in [1..Cardinality(S) -> S] : \A i, j \in DOMAIN f : f[i] = f[j] => i = j}

InitSel ==
    /\ variant \in Variants
    /\ IF variant = "basic"
          THEN long_n = 2 /\ short_n = 2 /\ InitStrategy(InstrumentSeq)
          ELSE /\ long_n \in 0..MaxN
               /\ short_n \in 0..MaxN
               /\ InitStrategy(<<"BTC", "ETH", "SOL">>)
    /\ market_precision = EmptyDict
    /\ faults = 0
    /\ positions = [i \in Instruments |-> NoPosition]
    /\ pc = "get_factor"

\* get_factor of one cycle
SelGetFactor ==
    /\ pc = "get_factor"
    /\ GetFactorCall
    /\ pc' = "selected"
    /\ UNCHANGED <<signalled, fetch_log, cfgVars, snapVars, now, current_time, last_ordered_ts,
                   positions, orders>>

\* the time to the next cycle passes
SelNextCycle ==
    /\ pc = "selected"
    /\ now < BUY_INTERVAL * (1 + MaxTicks)
    /\ now' = now + BUY_INTERVAL
    /\ pc' = "get_factor"
    /\ UNCHANGED <<signalled, fetch_log, cfgVars, selVars, snapVars, current_time, last_ordered_ts,
                   positions, orders, faults>>

NextSel == SelGetFactor \/ SelNextCycle

SpecSel == InitSel /\ [][NextSel]_vars

\* the selecting classes with the pairs iterated in any of their orders
InitOrder ==
    /\ variant \in Variants \ {"basic"}
    /\ long_n \in 1..MaxN
    /\ short_n \in 1..MaxN
    /\ \E tp \in Orderings({"BTC", "ETH", "SOL"}) : InitStrategy(tp)
    /\ market_precision = EmptyDict
    /\ faults = 0
    /\ positions = [i \in Instruments |-> NoPosition]
    /\ pc = "get_factor"

SpecOrder == InitOrder /\ [][NextSel]_vars

-----------------------------------------------------------------------------
(* The worked example: four pairs, BTC long 0.1, ETH short 1.0, SOL long 10.0 *)

ExamplePositions ==
    [i \in Instruments |->
        CASE i = "BTC" -> [long |-> 1000, short |-> 0]
          [] i = "ETH" -> [long |-> 0, short |-> 10000]
          [] i = "SOL" -> [long |-> 100000, short |-> 0]
          [] OTHER -> NoPosition]

InitExample ==
    /\ variant = "okx"
    /\ long_n = 1
    /\ short_n = 1
    /\ InitStrategy(<<"BTC", "ETH", "SOL", "ADA">>)
    /\ InitPrecision(<<"BTC", "ETH", "SOL", "ADA">>)
    /\ positions = ExamplePositions
    /\ pc = "tick"

SpecExample == InitExample /\ [][Next]_vars

-----------------------------------------------------------------------------
(* The scheduler over two intervals: the except branch of run_strategy and  *)
(* the exit signal of okx_main                                              *)

\* an event loop that could run a callback at any point of the coroutine
LoopPreempts == TRUE

\* the event loop runs callbacks and other tasks only while run_strategy is
\* suspended; the steps of a cycle call the exchange synchronously, so the
\* coroutine is suspended in asyncio.sleep(60) and nowhere else
LoopHasControl == pc \in {"sleep", "sleep_after_error"}

\* SIGINT or SIGTERM arrives; the loop will call _signal_handler
Signal ==
    /\ ~signalled
    /\ pc # "stopped"
    /\ signalled' = TRUE
    /\ UNCHANGED <<fetch_log, cfgVars, selVars, snapVars, now, current_time,
                   last_ordered_ts,
                   pc, positions, orders, faults>>

\* _signal_handler creates the task runner.stop(), which ends in sys.exit(0)
StopTask ==
    /\ signalled
    /\ LoopHasControl
    /\ signalled' = FALSE
    /\ pc' = "stopped"
    /\ UNCHANGED <<fetch_log, cfgVars, selVars, snapVars, now, current_time,
                   last_ordered_ts,
                   positions, orders, faults>>

\* the steps run_strategy awaits in a cycle
CycleSteps ==
    {"get_factor", "cancel_all_orders", "get_balance", "print_positions_to_close",
     "close_orphaned_positions", "create_order"}

\* an except branch that let the exception out of the loop
AfterErrorRaise == "stopped"

\* where the except branch of run_strategy leaves the coroutine: in its own
\* asyncio.sleep(60), inside the while loop
AfterError == "sleep_after_error"

\* a step lets an exception escape: the rest of the cycle is skipped,
\* last_ordered_ts keeps its value
CycleRaises ==
    /\ pc \in CycleSteps
    /\ faults < MaxFaults
    /\ faults' = faults + 1
    /\ pc' = AfterError
    /\ UNCHANGED <<signalled, fetch_log, cfgVars, selVars, snapVars, now, current_time,
                   last_ordered_ts, positions, orders>>

\* either asyncio.sleep(60) of run_strategy, until the second interval is over
SleepRun ==
    /\ pc \in {"sleep", "sleep_after_error"}
    /\ now < 2 * BUY_INTERVAL + MaxTicks - 1
    /\ now' = now + 1
    /\ pc' = "tick"
    /\ UNCHANGED <<signalled, fetch_log, cfgVars, selVars, snapVars, current_time,
                   last_ordered_ts, positions, orders, faults>>

\* OKXMomentumStrategy on two pairs with LONG_TOP_N from 1 up, so that the
\* universe can be too small; BTC and ADA may be held at the start
InitRun ==
    /\ variant = "okx"
    /\ long_n \in 1..MaxN
    /\ short_n = 1
    /\ InitStrategy(<<"BTC", "ETH">>)
    /\ market_precision =
         [p \in {"BTC", "ETH"} |->
            [amount_precision |-> [isfloat |-> TRUE, step |-> 100], min_amount |-> 100]]
    /\ faults = 0
    /\ positions \in {q \in InitialPositions :
                        \A i \in Instruments \ {"BTC", "ADA"} : q[i] = NoPosition}
    /\ pc = "tick"

\* run_strategy as the only task of the loop
NextLoop ==
    \/ TickRun
    \/ TickIdle
    \/ GetFactor
    \/ CancelAllOrders
    \/ GetBalance
    \/ PrintPositionsToClose
    \/ CloseOrphanedPositions
    \/ CreateOrder
    \/ CycleRaises
    \/ SleepRun

NextRun == NextLoop \/ Signal \/ StopTask

SpecRun == InitRun /\ [][NextRun]_vars

\* run_strategy can take a step: it is at the top of the loop or at a step of
\* a cycle, which always return, or in a sleep that is not the last one
CanAdvance ==
    \/ pc \in CycleSteps \cup {"tick"}
    \/ pc \in {"sleep", "sleep_after_error"} /\ now < 2 * BUY_INTERVAL + MaxTicks - 1

\* run_strategy moves to its next position; every step of NextLoop does
Advance ==
    /\ CanAdvance
    /\ pc' \in CycleSteps \cup {"tick", "sleep", "sleep_after_error", "stopped"}
    /\ pc' # pc

\* the event loop resumes run_strategy whenever it can run; no exit signal
\* arrives
SpecLive == InitRun /\ [][NextLoop]_vars /\ WF_pc(Advance)

\* the event loop with exit signals: it resumes run_strategy whenever it can
\* run and runs the task of the signal handler once run_strategy is suspended
SpecStop == InitRun /\ [][NextRun]_vars /\ WF_pc(Advance) /\ WF_pc(StopTask)

-----------------------------------------------------------------------------
(* OKXMomentumStrategyFixed, and one cycle of every class side by side *)

\* order_amount of OKXMomentumStrategyFixed.create_order: |target_value| / price,
\* neither rounded nor held against a minimum; in units of 0.0001
OrderAmountFixed(tv, current_price) == (Abs(tv) * 10000) \div Abs(current_price)

\* one iteration of the loop of OKXMomentumStrategyFixed.create_order
CreateOrderForFixed(trading_pair) ==
    LET current_price == Get(price, trading_pair, 0)
        tv == Get(target_value, trading_pair, 0)
    IN  IF current_price = 0 THEN <<>>
        ELSE BranchOrder(trading_pair, OrderAmountFixed(tv, current_price))

RECURSIVE CreateOrdersFixed(_)
CreateOrdersFixed(ps) ==
    IF ps = <<>> THEN <<>>
    ELSE CreateOrderForFixed(Head(ps)) \o CreateOrdersFixed(Tail(ps))

\* place_order_safe for each order of os; after an opening order that was
\* placed, set_stop_loss leaves a reduce-only stop order for the same amount
\* resting on the exchange: it is logged and fills nothing
RECURSIVE PlaceOrdersFixed(_, _, _, _)
PlaceOrdersFixed(pos, log, os, failing) ==
    IF os = <<>> THEN <<pos, log>>
    ELSE LET o == Head(os)
             placed == o.symbol \notin failing /\ Accepts(pos, o)
             rec == [symbol |-> o.symbol, side |-> o.side, pos_side |-> o.pos_side,
                     reduce_only |-> o.reduce_only, amount |-> o.amount,
                     placed |-> placed]
             stop == [symbol |-> o.symbol,
                      side |-> IF o.pos_side = "long" THEN "sell" ELSE "buy",
                      pos_side |-> o.pos_side, reduce_only |-> TRUE,
                      amount |-> o.amount, placed |-> TRUE]
             recs == IF placed /\ ~o.reduce_only THEN <<rec, stop>> ELSE <<rec>>
         IN  PlaceOrdersFixed(IF placed THEN Fill(pos, o) ELSE pos,
                              log \o recs, Tail(os), failing)

\* create_order of OKXMomentumStrategyFixed, then last_ordered_ts = current_time
CreateOrderFixed ==
    /\ pc = "create_order"
    /\ variant = "okx_fixed"
    /\ \E failing \in SUBSET Pairs :
         LET os == CreateOrdersFixed(trading_pairs)
             res == PlaceOrdersFixed(positions, orders, os, failing)
             nf == Cardinality(failing)
         IN  /\ failing \subseteq Symbols(os)
             /\ faults + nf <= MaxFaults
             /\ faults' = faults + nf
             /\ positions' = res[1]
             /\ orders' = res[2]
    /\ last_ordered_ts' = current_time
    /\ pc' = "sleep"
    /\ UNCHANGED <<signalled, fetch_log, cfgVars, selVars, snapVars, now, current_time>>

\* the classes whose run_strategy loop is compared
InitSteps ==
    /\ variant \in {"okx", "okx_weekend", "weekend", "okx_fixed"}
    /\ long_n = 1
    /\ short_n = 1
    /\ InitStrategy(<<"BTC", "ETH">>)
    /\ market_precision =
         [p \in {"BTC", "ETH"} |->
            [amount_precision |-> [isfloat |-> TRUE, step |-> 100], min_amount |-> 100]]
    /\ faults = 0
    /\ positions \in {q \in InitialPositions :
                        \A i \in Instruments \ {"BTC", "ADA"} : q[i] = NoPosition}
    /\ pc = "tick"

NextSteps == Next \/ CreateOrderFixed

SpecSteps == InitSteps /\ [][NextSteps]_vars

-----------------------------------------------------------------------------
(* The order sizer over the amount steps an exchange can state *)

\* precision.amount as load_markets can give it, in units of 0.0001 contract:
\* 0.01, 0.1, 0.5, 1.0 and 10.0 as floats, 1 and 10 as integers; with a
\* minimum order size of 0.01 or of 1
StepRows ==
    { [amount_precision |-> [isfloat |-> fl, step |-> st], min_amount |-> mn] :
        fl \in BOOLEAN, st \in {100, 1000, 5000, 10000, 100000}, mn \in {100, 10000} }
    \ { r \in [amount_precision : [isfloat : {FALSE}, step : {100, 1000, 5000}],
               min_amount : {100, 10000}] : TRUE }

\* OKXMomentumStrategy on three pairs, every pair with the same row
InitSize ==
    /\ variant = "okx"
    /\ long_n = 1
    /\ short_n = 1
    /\ InitStrategy(<<"BTC", "ETH", "SOL">>)
    /\ \E row \in StepRows : market_precision = [p \in {"BTC", "ETH", "SOL"} |-> row]
    /\ faults = 0
    /\ positions \in {q \in InitialPositions :
                        \A i \in Instruments \ {"ADA"} : q[i] = NoPosition}
    /\ pc = "tick"

SpecSize == InitSize /\ [][Next]_vars

-----------------------------------------------------------------------------
(* Scoring: the numbers get_factor stores in self.rsi *)

\* numpy float64 values: a finite one carries its value in units of 0.0001,
\* a non-finite one its sign (1 for inf, -1 for -inf, 0 for nan)
Fin(x) == [fin |-> TRUE, v |-> x]
PosInf == [fin |-> FALSE, v |-> 1]
NegInf == [fin |-> FALSE, v |-> -1]
NaN == [fin |-> FALSE, v |-> 0]

Sign(n) == IF n > 0 THEN 1 ELSE IF n < 0 THEN -1 ELSE 0

\* a / b on two float64 read from a frame: division by zero raises nothing,
\* it answers inf, -inf or nan
NpDiv(a, b) ==
    IF b = 0 THEN [fin |-> FALSE, v |-> Sign(a)] ELSE Fin((a * 10000) \div b)

\* x + y
ExtAdd(x, y) ==
    IF x.fin /\ y.fin THEN Fin(x.v + y.v)
    ELSE IF x = NaN \/ y = NaN THEN NaN
    ELSE IF x.fin THEN y
    ELSE IF y.fin THEN x
    ELSE IF x.v = y.v THEN x ELSE NaN

\* x * (num / den) for a finite factor num / den, den > 0
ExtScale(x, num, den) ==
    IF x.fin THEN Fin((x.v * num) \div den)
    ELSE [fin |-> FALSE, v |-> x.v * Sign(num)]

\* x * y
ExtMul(x, y) ==
    IF x.fin /\ y.fin THEN Fin((x.v * y.v) \div 10000)
    ELSE [fin |-> FALSE, v |-> Sign(x.v) * Sign(y.v)]

\* -x
ExtNeg(x) == [fin |-> x.fin, v |-> -x.v]

\* x < y: false whenever one side is nan
ExtLess(x, y) ==
    IF x = NaN \/ y = NaN THEN FALSE
    ELSE IF x.fin /\ y.fin THEN x.v < y.v
    ELSE IF x.fin THEN y = PosInf
    ELSE IF y.fin THEN x = NegInf
    ELSE x = NegInf /\ y = PosInf

\* min(a, x) and max(a, x) of Python: the first argument stays unless the
\* second compares below (above) it
PyMin(a, x) == IF ExtLess(x, a) THEN x ELSE a
PyMax(a, x) == IF ExtLess(a, x) THEN x ELSE a

\* a fetched frame of n rows (MAX_CANDLES, or the 168 of a pair listed a week
\* ago), by the values the scoring reads from it: closes flat at ref up to
\* the last row, which closes at last; volumes flat at vprev, then at vrec
\* over the last 24 rows.  close_169 stands for iloc[-169], which a frame of
\* 168 rows does not have
FlatFrame(n, ref, last, vprev, vrec) ==
    [rows |-> n,
     close_1 |-> last, close_2 |-> ref, close_5 |-> ref, close_24 |-> ref,
     close_25 |-> ref, close_73 |-> ref, close_169 |-> ref,
     \* pct_change().dropna(): 0/0 rows are dropped, x/0 (inf) is kept
     n_returns |-> IF ref # 0 THEN n - 1 ELSE IF last # 0 THEN 1 ELSE 0,
     \* std of 23 zero returns and one of r: |r| / sqrt(24), sqrt(24) as 4.9
     volatility |-> IF ref = 0 THEN 0
                    ELSE (Abs(last - ref) * 100000) \div (ref * 49),
     short_ma |-> (9 * ref + last) \div 10,
     long_ma |-> (29 * ref + last) \div 30,
     recent_volume_avg |-> vrec,
     previous_volume_avg |-> vprev]

\* a frame of MAX_CANDLES rows whose closes are at a up to 11 rows before
\* the end, at b over the next 9 rows and at c in the last row; vol is the
\* std of its last 24 returns (22 of 0, (b - a) / a and (c - b) / b), in
\* units of 0.0001; volumes flat at 10
StepFrame(a, b, c, vol) ==
    [rows |-> 200,
     close_1 |-> c, close_2 |-> b, close_5 |-> b, close_24 |-> a,
     close_25 |-> a, close_73 |-> a, close_169 |-> a,
     n_returns |-> 199,
     volatility |-> vol,
     short_ma |-> (9 * b + c) \div 10,
     long_ma |-> (20 * a + 9 * b + c) \div 30,
     recent_volume_avg |-> 10,
     previous_volume_avg |-> 10]

\* a rise followed by a crash in the last bar, and a fall followed by a spike
StepFrames == {StepFrame(300, 600, 30, 2876), StepFrame(600, 300, 3000, 18444)}

Frames ==
    {FlatFrame(n, ref, last, vprev, vrec) :
        n \in {168, 200}, ref \in {0, 300}, last \in {0, 300, 330},
        vprev \in {0, 10}, vrec \in {10, 20}}
    \cup StepFrames

\* calculate_volatility_adjusted_momentum(df, 24)
VolatilityAdjusted(df) ==
    IF df.rows < 25 \/ df.n_returns < 24 THEN Fin(0)
    ELSE LET momentum == NpDiv(df.close_1 - df.close_25, df.close_25)
         IN  IF df.volatility > 0
             THEN ExtMul(momentum, PyMin(Fin(10000), NpDiv(200, df.volatility)))
             ELSE momentum

\* calculate_trend_confirmation(df)
TrendConfirmation(df) ==
    IF df.rows < 50 THEN Fin(0)
    ELSE IF df.short_ma > df.long_ma
    THEN PyMin(Fin(10000), ExtScale(NpDiv(df.close_1 - df.long_ma, df.long_ma), 2, 1))
    ELSE ExtNeg(PyMin(Fin(10000),
                      ExtScale(NpDiv(df.long_ma - df.close_1, df.long_ma), 2, 1)))

\* calculate_volume_momentum(df, 24)
VolumeMomentum(df) ==
    IF df.rows < 48 THEN Fin(0)
    ELSE IF df.previous_volume_avg = 0 THEN Fin(0)
    ELSE PyMax(Fin(-5000),
               PyMin(Fin(5000),
                     NpDiv(df.recent_volume_avg - df.previous_volume_avg,
                           df.previous_volume_avg)))

\* the weighted momentum of calculate_enhanced_momentum: weights 0.1, 0.2,
\* 0.3, 0.25, 0.15 over the 1h, 4h, 1d, 3d and 7d changes, total weight 1
MomentumScore(df) ==
    LET change(ref) == NpDiv(df.close_1 - ref, ref)
    IN  ExtAdd(ExtAdd(ExtAdd(ExtAdd(ExtScale(change(df.close_2), 10, 100),
                                    ExtScale(change(df.close_5), 20, 100)),
                             ExtScale(change(df.close_25), 30, 100)),
                      ExtScale(change(df.close_73), 25, 100)),
               ExtScale(change(df.close_169), 15, 100))

\* the 7d change reads df['close'].iloc[-169] as soon as len(df) >= 168: on a
\* frame of exactly 168 rows that is an IndexError
EnhancedRaises(df) == df.rows >= 168 /\ df.rows < 169

\* final_score of calculate_enhanced_momentum; the except branch answers the
\* all-zero result
FinalScore(df) ==
    IF df.rows < 168 THEN Fin(0)
    ELSE IF EnhancedRaises(df) THEN Fin(0)
    ELSE ExtAdd(ExtAdd(ExtAdd(ExtScale(MomentumScore(df), 5, 10),
                              ExtScale(VolatilityAdjusted(df), 2, 10)),
                       ExtScale(TrendConfirmation(df), 2, 10)),
                ExtScale(VolumeMomentum(df), 1, 10))

\* change_24h of MomentumStrategy.get_factor
Change24h(df) == NpDiv(df.close_1 - df.close_24, df.close_24)

\* the score the class stores for a frame
ScoreOf(df) == IF variant = "basic" THEN Change24h(df) ELSE FinalScore(df)

\* one pass of the scoring loop of get_factor: the next pair's frame is
\* fetched and its score stored
ScorePair ==
    /\ pc = "get_factor"
    /\ LET p == trading_pairs[Len(rsi_order) + 1]
       IN  \E df \in Frames :
             /\ candles' = [candles EXCEPT ![p] = [data |-> <<df>>, last_update |-> now]]
             /\ rsi' = Put(rsi, p, ScoreOf(df))
             /\ rsi_order' = Append(rsi_order, p)
             /\ status' = Put(status, p, 0)
    /\ pc' = IF Len(rsi_order') = Len(trading_pairs) THEN "sort" ELSE "get_factor"
    /\ UNCHANGED <<signalled, fetch_log, cfgVars, now, current_time, last_ordered_ts,
                   is_weekend_mode, mode_log, target_value, price, asset_value, asset_amount,
                   positions, orders, faults>>

InitScore ==
    /\ variant \in {"basic", "okx"}
    /\ long_n = 1
    /\ short_n = 1
    /\ InitStrategy(<<"BTC", "ETH">>)
    /\ market_precision = EmptyDict
    /\ faults = 0
    /\ positions = [i \in Instruments |-> NoPosition]
    /\ pc = "get_factor"

SpecScore == InitScore /\ [][ScorePair]_vars

-----------------------------------------------------------------------------
(* Startup: __init__, then start() *)

\* start(): load_markets once more as a connection test, then run_strategy;
\* an exception is logged and start() returns without a cycle
Start ==
    /\ pc = "start"
    /\ \/ pc' = "tick" /\ faults' = faults
       \/ /\ faults < MaxFaults
          /\ faults' = faults + 1
          /\ pc' = "stopped"
    /\ UNCHANGED <<signalled, fetch_log, cfgVars, selVars, snapVars, now, current_time,
                   last_ordered_ts, positions, orders>>

\* OKXMomentumStrategy after __init__, before start()
InitStart ==
    /\ variant = "okx"
    /\ long_n = 1
    /\ short_n = 1
    /\ InitStrategy(<<"BTC", "ETH", "SOL">>)
    /\ InitPrecision(<<"BTC", "ETH", "SOL">>)
    /\ positions \in InitialPositions
    /\ pc = "start"

NextStart == Start \/ Next

SpecStart == InitStart /\ [][NextStart]_vars

-----------------------------------------------------------------------------
(* OKXMomentumStrategyFixed: quality check and retry of the candle fetch *)

\* max_retries of fetch_candles_with_retry
MaxRetries == 3

\* what one call of exchange.fetch_ohlcv can answer: an exception, or a frame,
\* given by its row count, its largest single-bar move in units of 0.0001,
\* whether it has a missing value, and the score get_factor computes from it
Raise == [raises |-> TRUE, rows |-> 0, max_move |-> 0, has_null |-> FALSE, score |-> 0]

QualityFrames ==
    { [raises |-> FALSE, rows |-> 200, max_move |-> 5000, has_null |-> FALSE, score |-> sc] :
        sc \in Scores }
    \cup
    { [raises |-> FALSE, rows |-> q[1], max_move |-> q[2], has_null |-> q[3], score |-> 2] :
        q \in {<<200, 6000, FALSE>>, <<200, 5000, TRUE>>, <<100, 5000, FALSE>>} }

\* the answers the exchange gives to the calls for one pair: k exceptions,
\* then a frame; or nothing but exceptions
AnswerSeqs ==
    { [i \in 1..MaxRetries |-> IF i <= k THEN Raise ELSE a] :
        k \in 0..(MaxRetries - 1), a \in QualityFrames }
    \cup { [i \in 1..MaxRetries |-> Raise] }

\* validate_data_quality(df)
ValidateDataQuality(df) ==
    IF df.rows < 168 THEN FALSE
    ELSE IF df.max_move > 5000 THEN FALSE
    ELSE IF df.has_null THEN FALSE
    ELSE TRUE

\* 2 ** attempt
Pow2(attempt) == IF attempt = 0 THEN 1 ELSE IF attempt = 1 THEN 2 ELSE 4

\* a wait of one second whatever the attempt
BackoffFixed(attempt) == 1

\* the seconds fetch_candles_with_retry sleeps after failed attempt number attempt
Backoff(attempt) == Pow2(attempt)

\* fetch_candles_with_retry(symbol) from attempt number attempt on, the
\* exchange answering answers[attempt + 1] to that attempt: the frame it
\* returns (NoData for None) and the calls and sleeps it makes
RECURSIVE FetchCandlesWithRetry(_, _, _)
FetchCandlesWithRetry(symbol, answers, attempt) ==
    IF attempt >= MaxRetries THEN [result |-> NoData, log |-> <<>>]
    ELSE LET a == answers[attempt + 1]
             call == [op |-> "fetch_ohlcv", symbol |-> symbol, attempt |-> attempt,
                      answer |-> a, secs |-> 0]
         IN  IF ~a.raises
             THEN [result |-> IF ValidateDataQuality(a) THEN <<a.score>> ELSE NoData,
                   log |-> <<call>>]
             ELSE IF attempt < MaxRetries - 1
             THEN LET rest == FetchCandlesWithRetry(symbol, answers, attempt + 1)
                  IN  [result |-> rest.result,
                       log |-> <<call, [op |-> "sleep", symbol |-> symbol,
                                        attempt |-> attempt, answer |-> Raise,
                                        secs |-> Backoff(attempt)]>> \o rest.log]
             ELSE [result |-> NoData, log |-> <<call>>]

\* the calls and sleeps of one get_factor: one fetch per pair that is due
RECURSIVE FetchLog(_, _)
FetchLog(pairs, ans) ==
    IF pairs = <<>> THEN <<>>
    ELSE (IF RefreshDue(Head(pairs))
          THEN FetchCandlesWithRetry(Head(pairs), ans[Head(pairs)], 0).log
          ELSE <<>>) \o FetchLog(Tail(pairs), ans)

\* get_factor of OKXMomentumStrategyFixed
GetFactorFixed ==
    /\ pc = "get_factor"
    /\ variant = "okx_fixed"
    /\ \E ans \in [Pairs -> AnswerSeqs] :
         /\ \A p \in Pairs : ~RefreshDue(p) => ans[p] = [i \in 1..MaxRetries |-> Raise]
         /\ GetFactorEffect(
               [p \in Pairs |-> IF RefreshDue(p)
                                THEN FetchCandlesWithRetry(p, ans[p], 0).result
                                ELSE NoData], FALSE)
         /\ fetch_log' = FetchLog(trading_pairs, ans)
    /\ pc' = "selected"
    /\ UNCHANGED <<signalled, cfgVars, snapVars, now, current_time, last_ordered_ts,
                   positions, orders, faults>>

\* OKXMomentumStrategyFixed on two pairs; LONG_TOP_N and SHORT_BOTTOM_N
\* default to 1
InitQuality ==
    /\ variant = "okx_fixed"
    /\ long_n = 1
    /\ short_n = 1
    /\ InitStrategy(<<"BTC", "ETH">>)
    /\ market_precision = EmptyDict
    /\ faults = 0
    /\ positions = [i \in Instruments |-> NoPosition]
    /\ pc = "get_factor"

\* the time to the second cycle passes
QualityNextCycle ==
    /\ pc = "selected"
    /\ now < 2 * BUY_INTERVAL
    /\ now' = now + BUY_INTERVAL
    /\ pc' = "get_factor"
    /\ UNCHANGED <<signalled, fetch_log, cfgVars, selVars, snapVars, current_time,
                   last_ordered_ts, positions, orders, faults>>

NextQuality == GetFactorFixed \/ QualityNextCycle

SpecQuality == InitQuality /\ [][NextQuality]_vars

-----------------------------------------------------------------------------
(* Properties of the rebalance cycle *)

\* create_order has returned and run_strategy has set last_ordered_ts:
\* orders is the log of the whole cycle
CycleDone == pc = "sleep" /\ last_ordered_ts = current_time

\* the log entries for one symbol
OrdersOf(i) == {k \in DOMAIN orders : orders[k].symbol = i}
ClosesOf(i) == {k \in OrdersOf(i) : orders[k].reduce_only}
OpensOf(i) == {k \in OrdersOf(i) : ~orders[k].reduce_only}

\* every selected pair got a quantity from calculate_order_amount
SizingPasses ==
    \A p \in Pairs :
        Get(status, p, 0) # 0 =>
            SizingStep(p, Get(target_value, p, 0), Get(price, p, 0)) # None

\* the account matches the target selection
PositionsMatchTargets ==
    \A i \in Instruments :
        LET st == Get(status, i, 0)
        IN  /\ st = 1 => positions[i].long > 0 /\ positions[i].short = 0
            /\ st = -1 => positions[i].short > 0 /\ positions[i].long = 0
            /\ st \notin {1, -1} => positions[i] = NoPosition

\* C1: after one cycle of OKXMomentumStrategy in which no exchange call
\* failed, the universe was large enough, sizing passed the minimum and every
\* submitted order filled, every status-1 instrument holds a long, every
\* status -1 instrument holds a short and every other instrument is flat.
C1_Convergence ==
    (/\ CycleDone
     /\ faults = 0
     /\ Len(rsi_order) >= long_n + short_n
     /\ SizingPasses
     /\ \A k \in DOMAIN orders : orders[k].placed)
    => PositionsMatchTargets

\* the snapshot shows a position against the target direction of pair p
Flipped(p) ==
    \/ Get(status, p, 0) = 1 /\ Get(asset_value, p, 0) < 0
    \/ Get(status, p, 0) = -1 /\ Get(asset_value, p, 0) > 0

\* C2: when the target of a pair is LONG and the snapshot shows a short for it
\* (or SHORT with a long), the cycle emits a CLOSE of the held position and
\* after it an OPEN in the target direction.  Stated for cycles without a
\* failing exchange call and with sizing passing.
C2_DirectionFlip ==
    (CycleDone /\ faults = 0 /\ SizingPasses) =>
        \A p \in Pairs :
            Flipped(p) =>
                \E j \in ClosesOf(p), k \in OpensOf(p) :
                    /\ j < k
                    /\ orders[j].pos_side = (IF Get(status, p, 0) = 1 THEN "short" ELSE "long")
                    /\ orders[k].pos_side = (IF Get(status, p, 0) = 1 THEN "long" ELSE "short")

\* C3: in a cycle of OKXWeekendReverseStrategy or WeekendReverseStrategy,
\* for every pair with status 0 and target_value 0 whose snapshot shows a
\* position, create_order submits a closing order for the full quantity.
\* Stated for cycles without a failing exchange call.
C3_FlatTargetClosed ==
    (CycleDone /\ faults = 0) =>
        \A p \in Pairs :
            (/\ Get(status, p, 0) = 0
             /\ Get(target_value, p, 0) = 0
             /\ Get(asset_value, p, 0) # 0)
            => \E k \in ClosesOf(p) : orders[k].amount = Abs(asset_amount[p])

\* C4: at the end of a cycle of OKXMomentumStrategy every live position whose
\* instrument has no LONG/SHORT target, inside or outside TRADING_PAIRS, has
\* had a closing order submitted; none was dropped from the scan.
C4_OrphanCoverage ==
    CycleDone =>
        \A i \in Live : i \notin SelectedPositions => ClosesOf(i) # {}

\* C5: no position receives two closing orders in the same cycle, whatever
\* the min_amount of its instrument.  Stated for cycles without a failing
\* exchange call.
C5_NoDoubleClose ==
    (CycleDone /\ faults = 0) =>
        \A i \in Instruments : Cardinality(ClosesOf(i)) <= 1

\* C6: an opening order is submitted only for a pair with status 1 or -1
\* whose position value in the snapshot is exactly 0; a pair with status 1 or
\* -1 and a nonzero position value gets no order at all.
C6_NoDuplicateOpening ==
    /\ \A k \in DOMAIN orders :
          ~orders[k].reduce_only =>
              /\ Get(asset_value, orders[k].symbol, 0) = 0
              /\ Get(status, orders[k].symbol, 0) \in {1, -1}
    /\ \A p \in Pairs :
          (Get(status, p, 0) \in {1, -1} /\ Get(asset_value, p, 0) # 0)
              => OrdersOf(p) = {}

\* a cycle that kept one held pair and opened another
C6_Witness ==
    /\ CycleDone
    /\ \E p \in Pairs :
          Get(status, p, 0) \in {1, -1} /\ Get(asset_value, p, 0) # 0
    /\ \E k \in DOMAIN orders : ~orders[k].reduce_only /\ orders[k].placed

\* the orders a step appended to the log for symbol i
NewOrdersOf(i) ==
    {k \in DOMAIN orders' : k > Len(orders) /\ orders'[k].symbol = i}

\* the log holds exactly one order closing the side of i that is held
ClosedOnce(i, pos_side) ==
    \E k \in NewOrdersOf(i) :
        /\ orders'[k].pos_side = pos_side
        /\ orders'[k].side = (IF pos_side = "long" THEN "sell" ELSE "buy")
        /\ orders'[k].reduce_only
        /\ orders'[k].amount = positions[i][pos_side]
        /\ \A j \in NewOrdersOf(i) : orders'[j].pos_side = pos_side => j = k

\* C7: close_orphaned_positions submits exactly one order per live position
\* whose symbol has neither status 1 nor -1 (reduce_only, sell/long for a
\* long, buy/short for a short, amount the contracts of the position) and no
\* order for a symbol with status 1 or -1.
C7_OrphanOrders ==
    [][CloseOrphanedPositions =>
        \A i \in Instruments :
            IF i \in SelectedPositions THEN NewOrdersOf(i) = {}
            ELSE \A pos_side \in {"long", "short"} :
                    IF positions[i][pos_side] > 0
                    THEN ClosedOnce(i, pos_side)
                    ELSE \A k \in NewOrdersOf(i) : orders'[k].pos_side # pos_side]_vars

\* the target and the snapshot of the worked example
ExampleTarget ==
    /\ Get(status, "BTC", 0) = 1
    /\ Get(status, "ADA", 0) = -1
    /\ Get(status, "ETH", 0) = 0
    /\ Get(status, "SOL", 0) = 0

ExampleSnapshot ==
    /\ Get(asset_amount, "BTC", 0) = 1000
    /\ Get(asset_amount, "ETH", 0) = -10000
    /\ Get(asset_amount, "SOL", 0) = 100000
    /\ Get(asset_amount, "ADA", 0) = 0

\* C8: with target BTC LONG, ADA SHORT, ETH and SOL FLAT and live positions
\* BTC long 0.1, ETH short 1.0, SOL long 10.0, the orders of one cycle are
\* exactly: close ETH short 1.0, close SOL long 10.0, open ADA short, and none
\* for BTC.  Stated for cycles without a failing exchange call.
C8_Example ==
    (CycleDone /\ faults = 0 /\ ExampleTarget /\ ExampleSnapshot) =>
        /\ Len(orders) = 3
        /\ OrdersOf("BTC") = {}
        /\ \E k \in ClosesOf("ETH") :
              /\ orders[k].side = "buy" /\ orders[k].pos_side = "short"
              /\ orders[k].amount = 10000
        /\ \E k \in ClosesOf("SOL") :
              /\ orders[k].side = "sell" /\ orders[k].pos_side = "long"
              /\ orders[k].amount = 100000
        /\ \E k \in OpensOf("ADA") :
              /\ orders[k].side = "sell" /\ orders[k].pos_side = "short"
              /\ orders[k].amount > 0

-----------------------------------------------------------------------------
(* Properties of the selection *)

\* the scored pairs with a given status
WithStatus(v) == {p \in Range(rsi_order) : Get(status, p, 0) = v}

\* C9: in OKXMomentumStrategy and OKXWeekendReverseStrategy, for every
\* long_n >= 0 and short_n >= 0 and at least long_n + short_n scored pairs,
\* in normal and in reversed mode, after the selection the pairs with status 1
\* and those with status -1 are disjoint, exactly long_n and exactly short_n
\* many, and every other scored pair has status 0.
C9_Cardinality ==
    (/\ variant \in {"okx", "okx_weekend"}
     /\ pc = "selected"
     /\ Len(rsi_order) >= long_n + short_n)
    => /\ WithStatus(1) \cap WithStatus(-1) = {}
       /\ Cardinality(WithStatus(1)) = long_n
       /\ Cardinality(WithStatus(-1)) = short_n
       /\ Range(rsi_order) \ (WithStatus(1) \cup WithStatus(-1)) = WithStatus(0)

\* the selection of the class has run on the score table
SelectionRan ==
    /\ pc = "selected"
    /\ rsi_order # <<>>
    /\ IF variant = "basic" THEN Len(rsi_order) >= 4
       ELSE Len(rsi_order) >= long_n + short_n

\* C10: in normal mode, after the selection of OKXMomentumStrategy or
\* MomentumStrategy, a pair with status 1 scores at least as high as a pair
\* with status 0, which scores at least as high as a pair with status -1, and
\* target_value is +TARGET_VALUE, -TARGET_VALUE or 0 as status is 1, -1 or 0.
C10_ByRank ==
    (variant \in {"okx", "basic"} /\ ~is_weekend_mode /\ SelectionRan) =>
        /\ \A a \in Range(rsi_order), b \in Range(rsi_order) :
              Get(status, a, 0) > Get(status, b, 0) => rsi[a] >= rsi[b]
        /\ \A p \in Range(rsi_order) :
              Get(target_value, p, 0) = Get(status, p, 0) * TARGET_VALUE

\* the n best and the n worst of a ranking (none for n = 0)
TopOf(sorted_keys, n) == SubSeq(sorted_keys, Len(sorted_keys) - n + 1, Len(sorted_keys))
BottomOf(sorted_keys, n) == SubSeq(sorted_keys, 1, n)

\* the pairs this cycle's ranking selects: nothing when too few are scored
RankedLong ==
    IF Len(rsi_order) >= long_n + short_n
    THEN Range(TopOf(SortedKeys(rsi_order, rsi), long_n))
    ELSE {}

RankedShort ==
    IF Len(rsi_order) >= long_n + short_n
    THEN Range(BottomOf(SortedKeys(rsi_order, rsi), short_n))
    ELSE {}

\* C11: after the selection of any cycle, in MomentumStrategy and in
\* OKXMomentumStrategy, a pair has status 1 or -1 only if this cycle's ranking
\* selects it long or short, and every pair with status 0 has target_value 0:
\* nothing set in an earlier cycle survives for a pair not selected now.
\* Stated for long_n >= 1 and short_n >= 1.
C11_Recomputed ==
    (/\ variant \in {"okx", "basic"}
     /\ long_n >= 1 /\ short_n >= 1
     /\ pc = "selected") =>
        \A p \in DOMAIN status :
            /\ status[p] = 1 => p \in RankedLong
            /\ status[p] = -1 => p \in RankedShort
            /\ status[p] = 0 => Get(target_value, p, 0) = 0

\* C14: in OKXMomentumStrategy a pair that obtained no usable candle series
\* in this cycle (its cache entry was not written at this cycle's time) takes
\* no part in the ranking: it has no entry in the score table.
C14_FailClosed ==
    (variant = "okx" /\ pc = "selected") =>
        \A p \in Pairs : candles[p].last_update # now => p \notin DOMAIN rsi

-----------------------------------------------------------------------------
(* Properties of the scheduler and of the snapshot, over two intervals *)

\* C12: live positions are never carried from one cycle to the next: when
\* get_balance of a cycle has returned, every asset_amount and asset_value
\* entry create_order will read is the one the account has in this cycle,
\* also when a fetch inside get_balance failed
C12_FreshSnapshot ==
    pc = "print_positions_to_close" =>
        \A p \in Pairs \cap DOMAIN asset_amount :
            /\ asset_amount[p] = SnapshotAmount(p)
            /\ asset_value[p] = SnapshotAmount(p) * LastPrice(p)

\* get_balance ends on a failed fetch before it has written an entry; the
\* position fetch is the first call it makes
FetchFailed ==
    /\ pc = "get_balance"
    /\ pc' # "get_balance"
    /\ faults' = faults + 1
    /\ UNCHANGED snapVars

\* C13: a cycle whose position fetch fails is aborted: run_strategy goes to
\* the sleep of its except branch without another step of the cycle, submits
\* no order and leaves last_ordered_ts alone, so the next tick retries
C13_FetchFailureAborts ==
    [][FetchFailed =>
            /\ pc' = "sleep_after_error"
            /\ last_ordered_ts' = last_ordered_ts
            /\ orders' = orders]_vars

\* get_factor of the current cycle has returned
FactorDone == pc \in CycleSteps \ {"get_factor"} \/ CycleDone

\* fewer instruments in the score table than the selection needs
UniverseTooSmall == Cardinality(DOMAIN rsi) < long_n + short_n

\* C15: in a cycle in which fewer than long_n + short_n instruments have a
\* score, every instrument has status 0 and target_value 0, and no order the
\* cycle submits opens a position
C15_InsufficientUniverse ==
    (FactorDone /\ UniverseTooSmall) =>
        /\ \A p \in Pairs : status[p] = 0 /\ target_value[p] = 0
        /\ \A k \in DOMAIN orders : orders[k].reduce_only

\* a cycle has run to its end with some instrument scored, but too few
C15_Witness == CycleDone /\ UniverseTooSmall /\ rsi # EmptyDict

\* C16: at the end of a cycle in which the universe was too small, every
\* position that is live on the account has had a closing order submitted in
\* that cycle
C16_TooSmallStillCloses ==
    (CycleDone /\ UniverseTooSmall) =>
        \A i \in Live : ClosesOf(i) # {}

\* a cycle is in progress: started, and neither finished nor aborted
InCycle == pc \in CycleSteps

\* C17: cycles do not overlap. get_factor starts only from the top of the
\* loop, never while a cycle is in progress; a cycle in progress goes on to
\* its next step, to the sleep after create_order or to the sleep of the
\* except branch; and the task of the signal handler never runs while a
\* cycle is in progress
C17_NoOverlap ==
    [][/\ (pc' = "get_factor" /\ pc' # pc) => (pc = "tick" /\ ~InCycle)
       /\ (InCycle /\ pc' # pc) => pc' \in CycleSteps \cup {"sleep", "sleep_after_error"}
       /\ (signalled /\ ~signalled') => ~InCycle
       /\ (pc' = "stopped" /\ pc' # pc) => ~InCycle]_vars

\* an exit signal has arrived in the middle of a cycle
C17_Witness == signalled /\ pc \in CycleSteps \ {"get_factor"}

\* C18: last_ordered_ts is 0 at the start. A cycle starts at the top of the
\* loop, at time t, only if t - last_ordered_ts >= BUY_INTERVAL.
\* last_ordered_ts changes only when create_order, the last step, returns; it
\* becomes the start time of that cycle, which is at least BUY_INTERVAL
\* later than the start time it held, so it never decreases
C18_CycleGate ==
    /\ last_ordered_ts = 0
    /\ [][/\ (pc = "tick" /\ pc' = "get_factor") =>
                /\ now - last_ordered_ts >= BUY_INTERVAL
                /\ current_time' = now
          /\ last_ordered_ts' >= last_ordered_ts
          /\ last_ordered_ts' # last_ordered_ts =>
                /\ pc = "create_order" /\ pc' = "sleep"
                /\ last_ordered_ts' = current_time
                /\ last_ordered_ts' - last_ordered_ts >= BUY_INTERVAL]_vars

\* a second cycle has run all its steps
C18_Witness == CycleDone /\ last_ordered_ts >= 2 * BUY_INTERVAL

\* run_strategy is suspended in one of its two sleeps
Sleeping == pc \in {"sleep", "sleep_after_error"}

\* C19: the loop never ends. From either sleep the next step of the loop is
\* the tick one unit later, and it comes; a tick at which BUY_INTERVAL has
\* elapsed since the last completed cycle starts a cycle at that time; after
\* a cycle that raised an exception the interval has still elapsed at the
\* next tick, so the cycle is attempted again there; and every cycle that
\* starts comes back to a sleep.  The ticks are those before the last one of
\* the model.
C19_SchedulerLive ==
    /\ [](pc # "stopped")
    /\ [](pc = "sleep_after_error" => IntervalElapsed(now + 1))
    /\ [][(Sleeping /\ pc' # pc) => (pc' = "tick" /\ now' = now + 1)]_vars
    /\ (Sleeping /\ now < 2 * BUY_INTERVAL + MaxTicks - 1) ~> pc = "tick"
    /\ (pc = "tick" /\ IntervalElapsed(now))
          ~> (pc = "get_factor" /\ current_time = now)
    /\ InCycle ~> Sleeping

\* a cycle starts one tick after the first cycle raised an exception
C19_Witness ==
    pc = "get_factor" /\ current_time = BUY_INTERVAL + 1 /\ last_ordered_ts = 0

\* C20: in a cycle of any class, get_factor comes first, cancel_all_orders
\* has returned when get_balance starts, and no order is submitted before
\* get_balance has returned
C20_StepOrder ==
    [][/\ (pc = "tick" /\ pc' # pc) => pc' \in {"get_factor", "sleep"}
       /\ (pc' = "get_balance" /\ pc' # pc) => pc = "cancel_all_orders"
       /\ (pc' = "cancel_all_orders" /\ pc' # pc) => pc = "get_factor"
       /\ orders' # orders =>
             pc \in {"tick", "close_orphaned_positions", "create_order"}]_vars

-----------------------------------------------------------------------------
(* Properties of the loops over the instruments *)

\* the log entries of submissions that failed
Unplaced == {k \in DOMAIN orders : ~orders[k].placed}

\* the log holds a submission of order o
Submitted(o) ==
    \E k \in OrdersOf(o.symbol) :
        /\ orders[k].side = o.side
        /\ orders[k].pos_side = o.pos_side
        /\ orders[k].reduce_only = o.reduce_only
        /\ orders[k].amount = o.amount

\* C21: a failure for one instrument does not end a loop for the others.
\* After get_factor every pair with a candle series has its score from it,
\* whatever happened to the other pairs; when close_orphaned_positions has
\* returned and every failure so far was a failed placement, the only
\* unselected positions left are those whose own order failed; and at the end
\* of the cycle the order create_order decides for each pair has been
\* submitted, whether or not another pair's order failed
C21_Isolation ==
    /\ pc \notin {"tick", "get_factor"} =>
          \A p \in Pairs : candles[p].data # NoData =>
              p \in DOMAIN rsi /\ rsi[p] = candles[p].data[1]
    /\ (pc = "create_order" /\ faults = Cardinality(Unplaced)) =>
          \A i \in Live \ SelectedPositions :
              OrdersOf(i) # {} /\ OrdersOf(i) \subseteq Unplaced
    /\ CycleDone =>
          \A p \in Pairs :
              \A n \in DOMAIN CreateOrderFor(p) : Submitted(CreateOrderFor(p)[n])

\* a submission failed and the order of another instrument was placed after it
C21_Witness ==
    /\ CycleDone
    /\ \E j, k \in DOMAIN orders :
          /\ j < k
          /\ ~orders[j].placed
          /\ orders[k].placed
          /\ orders[j].symbol # orders[k].symbol

\* C22: a failed order placement is not tried again in the cycle: no order
\* for an instrument is submitted after a submission for that instrument
\* failed
C22_NoRetry ==
    \A j, k \in DOMAIN orders :
        (j < k /\ orders[j].symbol = orders[k].symbol) => orders[j].placed

-----------------------------------------------------------------------------
(* Properties of the order sizer *)

\* the minimum order size of a pair: 0 when none is stored
MinAmountOf(p) ==
    IF p \in DOMAIN market_precision THEN market_precision[p].min_amount ELSE 0

\* C23: for every pair, target value and price, the sizer answers None or a
\* quantity that is positive and not below the minimum order size of the
\* pair, also when that minimum is 0 or not stored; and no opening order in
\* the log has a zero or undersized quantity
C23_SizingFloor ==
    /\ \A p \in Pairs :
         \A tv \in {-TARGET_VALUE, 0, TARGET_VALUE} :
            LET sized == SizingStep(p, tv, LastPrice(p))
            IN  sized # None => (sized[1] > 0 /\ sized[1] >= MinAmountOf(p))
    /\ \A k \in DOMAIN orders :
         ~orders[k].reduce_only =>
            (orders[k].amount > 0 /\ orders[k].amount >= MinAmountOf(orders[k].symbol))

\* C24: for a price of 0 or below the sizer answers None, for every pair and
\* target value; and a pair whose price in the snapshot is 0 or below has no
\* opening order in the log of the cycle
C24_NoPrice ==
    /\ \A p \in Pairs :
         \A tv \in {-TARGET_VALUE, TARGET_VALUE} :
            \A current_price \in {-LastPrice(p), -1, 0} :
                CalcOrderAmountOKX(p, tv, current_price) = None
    /\ CycleDone =>
         \A p \in Pairs :
            Get(price, p, 0) <= 0 => OpensOf(p) = {}

\* the multiples of step nearest to num / den (two of them on a tie)
NearestMultiples(num, den, step) ==
    LET lo == (num \div (den * step)) * step
    IN  {m \in {lo, lo + step} : 2 * Abs(m * den - num) <= step * den}

\* |target| / (contract size x price) in units of 0.0001 contract, as the
\* fraction RawNum / RawDen(p); every contract size x price of the model is
\* a multiple of 10000, so the division is exact
RawNum == TARGET_VALUE * 10000
RawDen(p) == (ContractSize(p) * LastPrice(p)) \div 10000

\* C25: for a price above 0 the sizer answers the multiple of the amount step
\* nearest to |target| / (contract size x price), or None when that multiple
\* is below the minimum order size; for every step, float or integer.  The
\* opening orders in the log carry such a quantity
C25_RoundedToStep ==
    /\ \A p \in Pairs :
         LET row == market_precision[p]
             step == row.amount_precision.step
             near == NearestMultiples(RawNum, RawDen(p), step)
             sized == CalcOrderAmountOKX(p, TARGET_VALUE, LastPrice(p))
         IN  IF sized = None
             THEN \E m \in near : m < row.min_amount
             ELSE sized[1] \in near /\ sized[1] >= row.min_amount
    /\ \A k \in DOMAIN orders :
         ~orders[k].reduce_only =>
            orders[k].amount \in
                NearestMultiples(RawNum, RawDen(orders[k].symbol),
                                 market_precision[orders[k].symbol].amount_precision.step)

(* Properties of the selection as a function of the scores *)

\* the selection of the class run on the score table with its keys in order keys
SelectionOn(keys) ==
    IF variant = "basic"
    THEN SelectBasic(keys, rsi, status, target_value)
    ELSE SelectOKX(keys, rsi, long_n, short_n, is_weekend_mode, status, target_value)

\* C26: the status and target value the selection leaves depend on the scores,
\* long_n and short_n alone: in whatever order the scored pairs entered the
\* score table (ascending identifier being one such order), the selection on
\* the same scores gives the state the cycle left
C26_OrderFree ==
    pc = "selected" =>
        \A keys \in Orderings(DOMAIN rsi) : SelectionOn(keys) = <<status, target_value>>

\* status the selection of the weekend classes leaves with the flag at wk
StatusWith(wk) ==
    SelectOKX(rsi_order, rsi, long_n, short_n, wk, status, target_value)[1]

\* C27: in the classes with the weekend switch, the selection with the flag
\* set gives status 1 to exactly the pairs that get -1 without the flag,
\* -1 to exactly those that get 1, and 0 to the same pairs; the status the
\* cycle left is the one of the flag it ran with
C27_Reversed ==
    (pc = "selected" /\ HasWeekendMode(variant)) =>
        /\ status = StatusWith(is_weekend_mode)
        /\ \A k \in DOMAIN rsi : StatusWith(TRUE)[k] = -StatusWith(FALSE)[k]

(* Properties of the account over the cycles *)

\* every order submitted so far was placed and filled
AllFilled == \A k \in DOMAIN orders : orders[k].placed

\* C28: at the end of every cycle up to which all submitted orders filled,
\* at most long_n + short_n instruments have a live position
C28_PositionCount ==
    (CycleDone /\ AllFilled) => Cardinality(Live) <= long_n + short_n

(* Properties of the scores *)

\* the frame a pair was scored on
FrameOf(p) == candles[p].data[1]

\* C29: every score in the ranking table is finite; in the multi-factor score
\* a zero reference close gives a momentum term of 0.0, a zero long moving
\* average a trend term of 0.0 and a zero prior-volume mean a volume term
\* of 0.0
C29_FiniteScores ==
    \A p \in DOMAIN rsi :
        /\ rsi[p].fin
        /\ variant = "okx" =>
            /\ FrameOf(p).close_2 = 0 => MomentumScore(FrameOf(p)) = Fin(0)
            /\ FrameOf(p).long_ma = 0 => TrendConfirmation(FrameOf(p)) = Fin(0)
            /\ FrameOf(p).previous_volume_avg = 0 => VolumeMomentum(FrameOf(p)) = Fin(0)

(* Properties of the shutdown *)

\* C30: once an exit signal has arrived, run_strategy starts nothing more,
\* neither a new cycle nor a further step of the cycle in progress: the only
\* move left is the exit; and the exit comes
C30_Shutdown ==
    /\ [][signalled => (pc' = pc \/ pc' = "stopped")]_vars
    /\ signalled ~> pc = "stopped"

(* Properties of the startup *)

\* C31: when load_markets failed while the precision table was built, the
\* table is empty and the engine never leaves startup: no step of a cycle
\* is ever run on an empty precision table
C31_FatalStartup ==
    market_precision = EmptyDict => pc \in {"start", "stopped"}

(* Properties of the multi-factor score *)

\* the horizons of the weighted momentum: bars back, weight in percent, and
\* the close the return is taken from
Horizons(df) ==
    {<<1, 10, df.close_2>>, <<4, 20, df.close_5>>, <<24, 30, df.close_25>>,
     <<72, 25, df.close_73>>, <<168, 15, df.close_169>>}

\* the horizons a frame has the bars for: a k-bar return needs k + 1 rows
Included(df) == {h \in Horizons(df) : df.rows >= h[1] + 1}

RECURSIVE WeightSum(_)
WeightSum(hs) ==
    IF hs = {} THEN 0
    ELSE LET h == CHOOSE x \in hs : TRUE IN h[2] + WeightSum(hs \ {h})

RECURSIVE WeightedSum(_, _, _)
WeightedSum(df, hs, total) ==
    IF hs = {} THEN Fin(0)
    ELSE LET h == CHOOSE x \in hs : TRUE
         IN  ExtAdd(ExtScale(NpDiv(df.close_1 - h[3], h[3]), h[2], total),
                    WeightedSum(df, hs \ {h}, total))

\* the weighted mean of the included horizon returns
RawMomentum(df) == WeightedSum(df, Included(df), WeightSum(Included(df)))

\* the final score built on that mean
ScoreOnIncluded(df) ==
    ExtAdd(ExtAdd(ExtAdd(ExtScale(RawMomentum(df), 5, 10),
                         ExtScale(VolatilityAdjusted(df), 2, 10)),
                  ExtScale(TrendConfirmation(df), 2, 10)),
           ExtScale(VolumeMomentum(df), 1, 10))

\* C32: for a frame of at least 168 rows the stored score is built on the
\* weighted mean of the returns over exactly the horizons the frame has the
\* bars for, normalised by their weights; with 168 rows that is the mean
\* over 1h, 4h, 1d and 3d, and the score is not replaced by the all-zero
\* result
C32_HorizonOmission ==
    variant = "okx" =>
        \A p \in DOMAIN rsi :
            FrameOf(p).rows >= 168 => rsi[p] = ScoreOnIncluded(FrameOf(p))

\* C33: on a frame of at least 50 rows with a positive 30-bar moving
\* average the trend score lies in [-1, 1], is >= 0 when the 10-bar average
\* exceeds the 30-bar average and <= 0 otherwise, and its magnitude is
\* min(1, 2 x |price - long_ma| / long_ma)
C33_TrendScore ==
    variant = "okx" =>
        \A p \in DOMAIN rsi :
            LET df == FrameOf(p)
                trend_score == TrendConfirmation(df)
                gap == NpDiv(Abs(df.close_1 - df.long_ma), df.long_ma)
            IN  (df.rows >= 50 /\ df.long_ma > 0) =>
                    /\ trend_score.fin
                    /\ trend_score.v >= -10000 /\ trend_score.v <= 10000
                    /\ df.short_ma > df.long_ma => trend_score.v >= 0
                    /\ df.short_ma <= df.long_ma => trend_score.v <= 0
                    /\ Abs(trend_score.v) = PyMin(Fin(10000), ExtScale(gap, 2, 1)).v

(* Properties of the candle fetch of OKXMomentumStrategyFixed *)

\* the calls of fetch_ohlcv for pair p in the last get_factor
CallsFor(p) ==
    {k \in DOMAIN fetch_log : fetch_log[k].op = "fetch_ohlcv" /\ fetch_log[k].symbol = p}

\* the series fetched for p in this cycle failed the quality check
Rejected(p) ==
    \E k \in CallsFor(p) :
        /\ ~fetch_log[k].answer.raises
        /\ fetch_log[k].answer.rows >= 168
        /\ ~ValidateDataQuality(fetch_log[k].answer)

\* C34: a pair whose freshly fetched series fails the quality check is left
\* out of the ranking of that cycle and gets no LONG or SHORT target in it,
\* also when a series of an earlier cycle is cached for it
C34_DataQuality ==
    pc = "selected" =>
        \A p \in Pairs :
            Rejected(p) => (p \notin DOMAIN rsi /\ status[p] = 0 /\ target_value[p] = 0)

\* the calls and sleeps made for pair p in the last get_factor, in order
LogFor(p) ==
    LET Test(e) == e.symbol = p IN SelectSeq(fetch_log, Test)

\* C35: the candle fetch for a pair makes at most max_retries calls, numbered
\* from 0; each call but the last raised and is followed by one sleep, of
\* 1 s after the first call and 2 s after the second; nothing follows the
\* last call, so the loop ends; a call that answered a frame is the last
\* one, also when the quality check rejects the frame; and when every call
\* raised the fetch reports failure: the cache entry of the pair is not
\* written
C35_BoundedRetry ==
    pc = "selected" =>
        \A p \in Pairs :
            LET L == LogFor(p)
            IN  /\ Cardinality(CallsFor(p)) <= MaxRetries
                /\ Len(L) = 2 * Cardinality(CallsFor(p)) - 1
                /\ \A n \in DOMAIN L :
                     IF n % 2 = 1
                     THEN /\ L[n].op = "fetch_ohlcv"
                          /\ L[n].attempt = (n - 1) \div 2
                          /\ n < Len(L) => L[n].answer.raises
                     ELSE /\ L[n].op = "sleep"
                          /\ L[n].secs = (IF n = 2 THEN 1 ELSE 2)
                /\ L[Len(L)].answer.raises =>
                     (Cardinality(CallsFor(p)) = MaxRetries /\ candles[p].last_update # now)

\* one fetch failed three times, another got a frame the quality check
\* rejects at its second call
C35_Witness ==
    /\ pc = "selected"
    /\ \E p, q \in Pairs :
         /\ Len(LogFor(p)) = 5 /\ LogFor(p)[5].answer.raises
         /\ Len(LogFor(q)) = 3 /\ Rejected(q)


-----------------------------------------------------------------------------
(* The weekend classes over two cycles *)

InitWeek ==
    /\ variant \in {"okx_weekend", "weekend"}
    /\ long_n = 1
    /\ short_n = 1
    /\ InitStrategy(<<"BTC", "ETH">>)
    /\ InitPrecision(<<"BTC", "ETH">>)
    /\ positions = [i \in Instruments |-> NoPosition]
    /\ pc = "tick"

\* await asyncio.sleep(60), until the second cycle has started
WeekSleep ==
    /\ pc = "sleep"
    /\ now < 2 * BUY_INTERVAL
    /\ now' = now + 1
    /\ pc' = "tick"
    /\ UNCHANGED <<signalled, fetch_log, cfgVars, selVars, snapVars, current_time,
                   last_ordered_ts, positions, orders, faults>>

NextWeek ==
    \/ TickRun
    \/ TickIdle
    \/ GetFactor
    \/ CancelAllOrders
    \/ GetBalance
    \/ CreateOrder
    \/ WeekSleep

SpecWeek == InitWeek /\ [][NextWeek]_vars

\* hours from Friday 00:00 to local time (weekday, hour)
HoursSinceFriday(weekday, hour) == ((weekday + 3) % 7) * 24 + hour

\* C36: is_weekend_time holds exactly from Friday 20:00 up to but not
\* including Monday 08:00; the flag changes only in a step of get_factor, so
\* the selection and the order logging of one cycle read one value, and a
\* mode-switch message is logged exactly when the flag changes
C36_WeekendMode ==
    [][/\ \A wd \in Weekdays, h \in Hours :
            IsWeekendTime(wd, h) <=>
                (HoursSinceFriday(wd, h) >= 20 /\ HoursSinceFriday(wd, h) < 3 * 24 + 8)
       /\ is_weekend_mode' # is_weekend_mode => (pc = "get_factor" /\ pc' # pc)
       /\ mode_log' = IF is_weekend_mode' # is_weekend_mode
                      THEN Append(mode_log, ModeMessage(is_weekend_mode'))
                      ELSE mode_log]_vars

\* the second cycle has placed orders after the mode switched twice
C36_Witness ==
    /\ pc = "sleep"
    /\ now = 2 * BUY_INTERVAL
    /\ orders # <<>>
    /\ mode_log = <<ModeMessage(TRUE), ModeMessage(FALSE)>>


-----------------------------------------------------------------------------
(* The shape of the submitted orders *)

\* the log entries a step adds
NewOrders == {k \in DOMAIN orders' : k > Len(orders)}

\* an opening order for an instrument without a snapshot position, in the
\* direction of its status
OpenShape(o) ==
    /\ Get(asset_value, o.symbol, 0) = 0
    /\ \/ Get(status, o.symbol, 0) = 1 /\ o.side = "buy" /\ o.pos_side = "long"
       \/ Get(status, o.symbol, 0) = -1 /\ o.side = "sell" /\ o.pos_side = "short"

\* a closing order: the side opposite to the position side, for the contracts
\* observed (by get_balance in create_order, by get_all_positions for an orphan)
CloseShape(o) ==
    /\ o.side = (IF o.pos_side = "long" THEN "sell" ELSE "buy")
    /\ IF pc = "create_order"
       THEN /\ o.symbol \in DOMAIN asset_amount
            /\ asset_amount[o.symbol] = (IF o.pos_side = "long" THEN o.amount ELSE -o.amount)
       ELSE positions[o.symbol][o.pos_side] = o.amount

\* the instrument has no position when the order is submitted
OnFlatAccount(o) == positions[o.symbol] = NoPosition

\* C37: every order submitted with reduceOnly=False is an opening order for an
\* instrument whose snapshot position is zero, in the direction of its
\* status; every other order is a close of the held side for the observed
\* contracts; and no submitted order enlarges or reverses an existing position
C37_OrderShape ==
    [][\A k \in NewOrders :
          IF orders'[k].reduce_only
          THEN CloseShape(orders'[k])
          ELSE OpenShape(orders'[k]) /\ OnFlatAccount(orders'[k])]_vars

\* the same without the last part: the shape of the orders alone
C37_ShapeOnly ==
    [][\A k \in NewOrders :
          IF orders'[k].reduce_only
          THEN CloseShape(orders'[k])
          ELSE OpenShape(orders'[k])]_vars


-----------------------------------------------------------------------------
(* An account in net mode: every entry of fetch_positions has posSide 'net' *)

NetPositions ==
    {[i \in Instruments |->
        [long |-> 0, short |-> 0, net |-> IF c[i] = "net" THEN Lot(i) ELSE 0]] :
      c \in {d \in [Instruments -> {"none", "net"}] :
                /\ d["XRP"] = "none"
                /\ Cardinality({i \in Instruments : d[i] # "none"}) <= MaxLive}}

\* OKXMomentumStrategy on an account in either position mode
InitNet ==
    /\ variant = "okx"
    /\ long_n = 1
    /\ short_n = 1
    /\ InitStrategy(<<"BTC", "ETH", "SOL">>)
    /\ InitPrecision(<<"BTC", "ETH", "SOL">>)
    /\ positions \in InitialPositions \cup NetPositions
    /\ pc = "tick"

SpecNet == InitNet /\ [][Next]_vars

\* C38: after get_balance completes without an exception, asset_value[p] is
\* nonzero exactly for the pairs with an entry with contracts > 0, positive
\* for a long and negative for a short, whatever the posSide of the entry
C38_SnapshotFaithful ==
    (pc = "print_positions_to_close" /\ \A p \in Pairs : p \in DOMAIN price) =>
        \A p \in Pairs :
            /\ p \in DOMAIN asset_value
            /\ asset_value[p] # 0 <=> EntriesOf(p) # <<>>
            /\ positions[p].long > 0 => asset_value[p] > 0
            /\ positions[p].short > 0 => asset_value[p] < 0


\* C39: within one cycle every closing order is submitted before the first
\* opening order: the log of the cycle has no opening order in front of a
\* closing one
C39_ClosesFirst ==
    \A j, k \in DOMAIN orders :
        (j < k /\ ~orders[j].reduce_only) => ~orders[k].reduce_only

\* the same for the cycles in which every submission succeeded
C39_ClosesFirstNoFault ==
    faults = 0 =>
        \A j, k \in DOMAIN orders :
            (j < k /\ ~orders[j].reduce_only) => ~orders[k].reduce_only

====
